---- MODULE Spec2Model ----
(***************************************************************************)
(* Model of the candlestick chart widget of src/src/main.rs: the viewport  *)
(* state (CandleChartState), the input handler (CandleChart::update) and   *)
(* the geometry builder (CandleChart::draw).                               *)
(*                                                                         *)
(* Numbers.  The program computes in f64 (and casts coordinates to f32).   *)
(* The model computes in exact rational arithmetic: a number is a pair     *)
(* <<n, d>> with d > 0 in lowest terms.  Rounding of f64/f32 operations,   *)
(* infinities and NaN are outside the model; every value the model feeds   *)
(* to the program is a small finite rational.                              *)
(***************************************************************************)
EXTENDS Integers, Sequences, FiniteSets, TLC

VARIABLES
    candles,         \* CandleChart.candles: the sequence of Candle records
    bounds,          \* the Rectangle of the canvas: [width, height]
    middle_pressed,  \* CandleChartState.middle_pressed
    price_scale,     \* CandleChartState.price_scale
    time_scale,      \* CandleChartState.time_scale
    event,           \* the event of the last call of update (NoEvent: none yet)
    status,          \* the event::Status the last call of update returned
    history,         \* every event delivered so far, oldest first
    frame,           \* the draw commands recorded in the Frame by the last draw
    drawn            \* TRUE once draw has returned

vars == <<candles, bounds, middle_pressed, price_scale, time_scale,
          event, status, history, frame, drawn>>

-----------------------------------------------------------------------------
(* Bounds of the model. *)

\* Longest sequence of events delivered to update.
MaxEvents == 4

\* Longest candle sequence drawn.
MaxCandles == 3

-----------------------------------------------------------------------------
(* Exact rational arithmetic standing for f64. *)

Abs(n) == IF n < 0 THEN -n ELSE n

RECURSIVE GCD(_, _)
GCD(a, b) == IF b = 0 THEN a ELSE GCD(b, a % b)

\* F(v) with the argument v evaluated once, whatever F does with it.
Bind(v, F(_)) == CHOOSE r \in {F(w) : w \in {v}} : TRUE

\* The rational n/d (d # 0) in lowest terms with a positive denominator.
Rat(n, d) ==
    Bind(<<n, d, GCD(Abs(n), Abs(d))>>,
         LAMBDA t : <<(IF t[2] < 0 THEN -t[1] ELSE t[1]) \div t[3],
                      Abs(t[2]) \div t[3]>>)

R(n) == <<n, 1>>

RNeg(x) == Bind(x, LAMBDA a : <<-a[1], a[2]>>)

\* a + b of two rationals in lowest terms.
RAddNorm(a, b, g) ==
    Rat(a[1] * (b[2] \div g) + b[1] * (a[2] \div g), (a[2] \div g) * b[2])

RAdd(x, y) == Bind(<<x, y>>, LAMBDA t : RAddNorm(t[1], t[2], GCD(t[1][2], t[2][2])))

RSub(x, y) == RAdd(x, RNeg(y))

\* a * b of two rationals in lowest terms, reduced crosswise by g1 and g2.
RMulNorm(a, b, g1, g2) ==
    <<(a[1] \div g1) * (b[1] \div g2), (a[2] \div g2) * (b[2] \div g1)>>

RMul(x, y) ==
    Bind(<<x, y>>,
         LAMBDA t : Bind(<<GCD(Abs(t[1][1]), t[2][2]), GCD(Abs(t[2][1]), t[1][2])>>,
                         LAMBDA g : RMulNorm(t[1], t[2], g[1], g[2])))

\* x / y for y # 0 (no division of the model has a zero divisor).
RDiv(x, y) ==
    RMul(x, Bind(y, LAMBDA b : IF b[1] < 0 THEN <<-b[2], -b[1]>> ELSE <<b[2], b[1]>>))

RLt(x, y) == RSub(x, y)[1] < 0

RLe(x, y) == RSub(x, y)[1] <= 0

RMin(x, y) == Bind(<<x, y>>, LAMBDA t : IF RLt(t[2], t[1]) THEN t[2] ELSE t[1])

RMax(x, y) == Bind(<<x, y>>, LAMBDA t : IF RLt(t[1], t[2]) THEN t[2] ELSE t[1])

\* Largest integer <= x.
Floor(x) == x[1] \div x[2]

-----------------------------------------------------------------------------
(* Events: iced's canvas Event, as far as update distinguishes them. *)

NoEvent == [kind |-> "None", button |-> "-", unit |-> "-", y |-> 0]

ButtonPressed(b) == [kind |-> "ButtonPressed", button |-> b, unit |-> "-", y |-> 0]

ButtonReleased(b) == [kind |-> "ButtonReleased", button |-> b, unit |-> "-", y |-> 0]

\* WheelScrolled { delta: ScrollDelta::Lines { y } } or ::Pixels { y }.
WheelScrolled(u, yy) == [kind |-> "WheelScrolled", button |-> "-", unit |-> u, y |-> yy]

\* Another mouse event, and an event that is no mouse event.
CursorMoved == [kind |-> "CursorMoved", button |-> "-", unit |-> "-", y |-> 0]

Keyboard == [kind |-> "Keyboard", button |-> "-", unit |-> "-", y |-> 0]

\* Wheel deltas delivered: the zoom factors they give are
\*   Lines -20: -1,  -10: 0,  0: 1,  2: 6/5,  40: 5;  Pixels 100: 6/5,  -250: 1/2.
LinesY == {-20, -10, 0, 2, 40}

PixelsY == {-250, 100}

WheelEvents ==
    {WheelScrolled("Lines", yy) : yy \in LinesY} \cup
    {WheelScrolled("Pixels", yy) : yy \in PixelsY}

Events ==
    {ButtonPressed(b) : b \in {"Middle", "Left"}} \cup
    {ButtonReleased(b) : b \in {"Middle", "Left"}} \cup
    {CursorMoved, Keyboard} \cup WheelEvents

-----------------------------------------------------------------------------
(* CandleChartState and CandleChart::update. *)

DefaultState ==
    [middle_pressed |-> FALSE, price_scale |-> R(1), time_scale |-> R(1)]

\* Mutant: a Pixels delta taken as if it were Lines.
ScrollAmount_NoPixelNorm(e) == R(e.y)

ScrollAmount(e) ==
    IF e.unit = "Lines" THEN R(e.y) ELSE RDiv(R(e.y), R(50))

\* Mutant: the sign of the scroll amount inverted.
ZoomFactor_Inverted(scroll_amount) == RSub(R(1), RMul(scroll_amount, Rat(1, 10)))

ZoomFactor(scroll_amount) == RAdd(R(1), RMul(scroll_amount, Rat(1, 10)))

\* Mutant: the lower clamp forgotten.
ClampScale_NoFloor(s) == Bind(s, LAMBDA v : IF RLt(R(10), v) THEN R(10) ELSE v)

\* The four clamping statements, as they act on one of the two scales.
ClampScale(s) ==
    Bind(Bind(s, LAMBDA v : IF RLt(v, Rat(1, 10)) THEN Rat(1, 10) ELSE v),
         LAMBDA lo : IF RLt(R(10), lo) THEN R(10) ELSE lo)

ZoomedPriceScale(st, zoom_factor) == RMul(st.price_scale, zoom_factor)

\* Mutant: the time scale left out of the zoom.
ZoomedTimeScale_Unscaled(st, zoom_factor) == st.time_scale

ZoomedTimeScale(st, zoom_factor) == RMul(st.time_scale, zoom_factor)

AfterPress(st) == [st EXCEPT !.middle_pressed = TRUE]

\* Mutant: the release leaves the flag as it is.
AfterRelease_Stuck(st) == st

AfterRelease(st) == [st EXCEPT !.middle_pressed = FALSE]

\* Mutant: the wheel zooms whether or not the button is held.
WheelEnabled_Always(st) == TRUE

WheelEnabled(st) == st.middle_pressed

AfterWheel(st, e) ==
    LET zoom_factor == ZoomFactor(ScrollAmount(e))
    IN  [st EXCEPT !.price_scale = ClampScale(ZoomedPriceScale(st, zoom_factor)),
                   !.time_scale = ClampScale(ZoomedTimeScale(st, zoom_factor))]

\* update(state, event): the state it leaves and the status it returns.
update(st, e) ==
    IF e = ButtonPressed("Middle")
        THEN [state |-> AfterPress(st), status |-> "Captured"]
    ELSE IF e = ButtonReleased("Middle")
        THEN [state |-> AfterRelease(st), status |-> "Captured"]
    ELSE IF e.kind = "WheelScrolled"
        THEN IF WheelEnabled(st)
                 THEN [state |-> AfterWheel(st, e), status |-> "Captured"]
                 ELSE [state |-> st, status |-> "Ignored"]
    ELSE [state |-> st, status |-> "Ignored"]

State ==
    [middle_pressed |-> middle_pressed, price_scale |-> price_scale,
     time_scale |-> time_scale]

\* One call of update with event e.
Update(e) ==
    LET r == update(State, e)
    IN  /\ middle_pressed' = r.state.middle_pressed
        /\ price_scale' = r.state.price_scale
        /\ time_scale' = r.state.time_scale
        /\ status' = r.status
        /\ event' = e

-----------------------------------------------------------------------------
(* The input handler driven by the host's event feed. *)

Init ==
    /\ candles = <<>>
    /\ bounds = [width |-> 200, height |-> 100]
    /\ middle_pressed = DefaultState.middle_pressed
    /\ price_scale = DefaultState.price_scale
    /\ time_scale = DefaultState.time_scale
    /\ event = NoEvent
    /\ status = "None"
    /\ history = <<>>
    /\ frame = <<>>
    /\ drawn = FALSE

Deliver ==
    /\ Len(history) < MaxEvents
    /\ \E e \in Events :
        /\ Update(e)
        /\ history' = Append(history, e)
    /\ UNCHANGED <<candles, bounds, frame, drawn>>

Next == Deliver

Spec == Init /\ [][Next]_vars

-----------------------------------------------------------------------------
(* CandleChart::draw.  A draw command is a record                          *)
(*   [op, a, b, color, width, content]                                     *)
(* fill_rectangle: a = top-left point, b = size <<w, h>>;                  *)
(* stroke:         a, b = the end points of the line, width = line width;  *)
(* fill_text:      a = position, width = font size, content = the text.    *)
(* Coordinates are kept as the f64 values the program casts to f32.        *)

\* f64::EPSILON (2^-52), which only keeps the divisor of price_to_y from
\* being zero; the model takes 2^-16, far below the price differences it uses.
EPSILON == Rat(1, 65536)

Origin == <<R(0), R(0)>>

FillRectangle(top_left, size, color) ==
    [op |-> "fill_rectangle", a |-> top_left, b |-> size, color |-> color,
     width |-> R(0), content |-> <<>>]

StrokeLine(from, to, color) ==
    [op |-> "stroke", a |-> from, b |-> to, color |-> color,
     width |-> R(1), content |-> <<>>]

FillText(content, position) ==
    [op |-> "fill_text", a |-> position, b |-> Origin, color |-> "BLACK",
     width |-> R(14), content |-> content]

\* The fold over the candles: the least low and the greatest high.
min_price(cs) ==
    LET lows == {R(cs[i].low) : i \in 1..Len(cs)}
    IN  CHOOSE m \in lows : \A l \in lows : RLe(m, l)

max_price(cs) ==
    LET highs == {R(cs[i].high) : i \in 1..Len(cs)}
    IN  CHOOSE m \in highs : \A h \in highs : RLe(h, m)

\* The values draw computes once, before it records a command.
Mapper(cs, st, b) ==
    LET lo == min_price(cs)
        hi == max_price(cs)
        scaled_candle_count == RMul(R(Len(cs)), st.time_scale)
        spacing == RDiv(R(b.width), RMax(scaled_candle_count, R(1)))
        price_range == RDiv(RSub(hi, lo), st.price_scale)
        mid_price == RDiv(RAdd(hi, lo), R(2))
    IN  [min_price |-> lo,
         max_price |-> hi,
         height |-> R(b.height),
         width |-> R(b.width),
         candle_spacing |-> spacing,
         candle_width |-> RMul(spacing, Rat(7, 10)),
         scaled_min_price |-> RSub(mid_price, RDiv(price_range, R(2))),
         scaled_max_price |-> RAdd(mid_price, RDiv(price_range, R(2)))]

\* Mutant: the y axis not flipped.
price_to_y_Unflipped(p, m) ==
    RMul(RDiv(RSub(p, m.scaled_min_price),
              RAdd(RSub(m.scaled_max_price, m.scaled_min_price), EPSILON)),
         m.height)

\* The closure price_to_y, m holding the values it captures.
price_to_y(p, m) ==
    LET norm == RDiv(RSub(p, m.scaled_min_price),
                     RAdd(RSub(m.scaled_max_price, m.scaled_min_price), EPSILON))
    IN  RSub(m.height, RMul(norm, m.height))

\* x_center of the candle at 0-based index i.
index_to_x(i, m) ==
    RAdd(RMul(R(i), m.candle_spacing), RDiv(m.candle_spacing, R(2)))

Background(b) ==
    FillRectangle(Origin, <<R(b.width), R(b.height)>>, "rgb8(240,240,240)")

\* Mutant: a candle that closes where it opened is painted green.
body_color_GreenOnTie(candle) ==
    IF candle.close >= candle.open THEN "rgb(0.0,0.7,0.0)" ELSE "rgb(0.7,0.0,0.0)"

body_color(candle) ==
    IF candle.close > candle.open THEN "rgb(0.0,0.7,0.0)" ELSE "rgb(0.7,0.0,0.0)"

\* The wick and the body of the candle at position k (1-based) of cs.
CandleCommands(k, cs, m) ==
    LET candle == cs[k]
        x_center == index_to_x(k - 1, m)
        high_y == price_to_y(R(candle.high), m)
        low_y == price_to_y(R(candle.low), m)
        open_y == price_to_y(R(candle.open), m)
        close_y == price_to_y(R(candle.close), m)
        top == IF RLt(close_y, open_y) THEN close_y ELSE open_y
        bottom == IF RLt(close_y, open_y) THEN open_y ELSE close_y
    IN  << StrokeLine(<<x_center, high_y>>, <<x_center, low_y>>, "BLACK"),
           FillRectangle(<<RSub(x_center, RDiv(m.candle_width, R(2))), top>>,
                         <<m.candle_width, RSub(bottom, top)>>,
                         body_color(candle)) >>

\* Mutant: the candles drawn last to first.
RECURSIVE DrawCandles_Reversed(_, _, _)
DrawCandles_Reversed(k, cs, m) ==
    IF k > Len(cs) THEN <<>>
    ELSE DrawCandles_Reversed(k + 1, cs, m) \o CandleCommands(k, cs, m)

\* The loop over the candles, from position k on.
RECURSIVE DrawCandles(_, _, _)
DrawCandles(k, cs, m) ==
    IF k > Len(cs) THEN <<>>
    ELSE CandleCommands(k, cs, m) \o DrawCandles(k + 1, cs, m)

\* format!("{:.2}", x): the number of hundredths nearest to x.
Format2(x) == <<Floor(RAdd(RMul(x, R(100)), Rat(1, 2)))>>

num_price_labels == 5

\* The label and the horizontal grid line of step j.
PriceLabelCommands(j, m) ==
    LET label_price ==
            RAdd(m.scaled_min_price,
                 RMul(Rat(j, num_price_labels),
                      RSub(m.scaled_max_price, m.scaled_min_price)))
        y_pos == price_to_y(label_price, m)
    IN  << FillText(Format2(label_price), <<R(5), RSub(y_pos, R(7))>>),
           StrokeLine(<<R(0), y_pos>>, <<m.width, y_pos>>, "rgb8(200,200,200)") >>

RECURSIVE DrawPriceLabels(_, _)
DrawPriceLabels(j, m) ==
    IF j > num_price_labels THEN <<>>
    ELSE PriceLabelCommands(j, m) \o DrawPriceLabels(j + 1, m)

\* time.format("%Y-%m-%d %H:%M"): the time to the minute (16 characters).
FormatTime(t) == <<t \div 60>>

num_time_labels == 5

\* The label and the vertical grid line of step k.
TimeLabelCommands(k, cs, m) ==
    LET index == Floor(RMul(Rat(k, num_time_labels), R(Len(cs) - 1)))
        x_center == index_to_x(index, m)
    IN  IF index + 1 \in 1..Len(cs)
        THEN << FillText(FormatTime(cs[index + 1].time),
                         <<RSub(x_center, Rat(168, 5)), RSub(m.height, R(20))>>),
                StrokeLine(<<x_center, R(0)>>, <<x_center, m.height>>,
                           "rgb8(220,220,220)") >>
        ELSE <<>>

RECURSIVE DrawTimeLabels(_, _, _)
DrawTimeLabels(k, cs, m) ==
    IF k > num_time_labels THEN <<>>
    ELSE TimeLabelCommands(k, cs, m) \o DrawTimeLabels(k + 1, cs, m)

\* Mutant: the background filled before the test for no candles.
draw_FillFirst(cs, st, b) ==
    IF cs = <<>> THEN <<Background(b)>>
    ELSE LET m == Mapper(cs, st, b)
         IN  <<Background(b)>> \o DrawCandles(1, cs, m)
                \o DrawPriceLabels(0, m) \o DrawTimeLabels(0, cs, m)

\* draw(state, bounds): the commands recorded in the frame it returns.
draw(cs, st, b) ==
    IF cs = <<>> THEN <<>>
    ELSE LET m == Mapper(cs, st, b)
         IN  <<Background(b)>> \o DrawCandles(1, cs, m)
                \o DrawPriceLabels(0, m) \o DrawTimeLabels(0, cs, m)

-----------------------------------------------------------------------------
(* The geometry builder applied to bounded inputs. *)

\* Candles by shape: rising, falling, closing where it opened, all prices
\* equal, and one whose high lies below its low (the program does not
\* validate candles).
Shapes ==
    { [open |-> 2, low |-> 1, high |-> 4, close |-> 3],
      [open |-> 3, low |-> 1, high |-> 4, close |-> 2],
      [open |-> 2, low |-> 1, high |-> 3, close |-> 2],
      [open |-> 2, low |-> 2, high |-> 2, close |-> 2],
      [open |-> 2, low |-> 3, high |-> 1, close |-> 2] }

\* 2022-10-01 00:00:00 UTC in seconds; one candle per hour.
StartTime == 1664582400

MakeCandles(f) ==
    [i \in 1..Len(f) |->
        [open |-> f[i].open, low |-> f[i].low, high |-> f[i].high,
         close |-> f[i].close, volume |-> "None",
         time |-> StartTime + 3600 * (i - 1)]]

CandleSeqs ==
    {MakeCandles(f) : f \in UNION {[1..n -> Shapes] : n \in 0..MaxCandles}}

\* Scales the input handler can leave in both fields.
DrawScales == {Rat(1, 10), R(1), Rat(6, 5), R(10)}

DrawBounds == {[width |-> 200, height |-> 100], [width |-> 3, height |-> 1]}

InitDraw ==
    /\ candles \in CandleSeqs
    /\ bounds \in DrawBounds
    /\ middle_pressed = FALSE
    /\ price_scale \in DrawScales
    /\ time_scale = price_scale
    /\ event = NoEvent
    /\ status = "None"
    /\ history = <<>>
    /\ frame = <<>>
    /\ drawn = FALSE

Draw ==
    /\ frame' = draw(candles, State, bounds)
    /\ drawn' = TRUE
    /\ UNCHANGED <<candles, bounds, middle_pressed, price_scale, time_scale,
                   event, status, history>>

NextDraw == Draw

SpecDraw == InitDraw /\ [][NextDraw]_vars

-----------------------------------------------------------------------------
(* The zoom-in gesture: the button is held and the host keeps delivering   *)
(* the same wheel event with a positive delta.                             *)

\* Zoom factors 3/2, 2, 5 and (250 pixels = 5 lines) 3/2.
ZoomInEvents ==
    {WheelScrolled("Lines", 5), WheelScrolled("Lines", 10),
     WheelScrolled("Lines", 40), WheelScrolled("Pixels", 250)}

ZoomStarts ==
    {Rat(1, 10), Rat(1, 5), Rat(1, 4), Rat(1, 2), R(1), Rat(6, 5), R(2), R(3),
     R(5), R(8), R(10)}

InitZoom ==
    /\ candles = <<>>
    /\ bounds = [width |-> 200, height |-> 100]
    /\ middle_pressed = TRUE
    /\ price_scale \in ZoomStarts
    /\ time_scale = price_scale
    /\ event = NoEvent
    /\ status = "None"
    /\ history = <<>>
    /\ frame = <<>>
    /\ drawn = FALSE

\* The first wheel event of the gesture fixes the delta.
ZoomStart ==
    /\ event = NoEvent
    /\ \E e \in ZoomInEvents : Update(e)
    /\ UNCHANGED <<candles, bounds, history, frame, drawn>>

\* The same wheel event again.
ZoomRepeat ==
    /\ event \in ZoomInEvents
    /\ Update(event)
    /\ UNCHANGED <<candles, bounds, history, frame, drawn>>

\* Once both scales are 10, any wheel event with a delta >= 0.
ZoomAtMax ==
    /\ price_scale = R(10) /\ time_scale = R(10)
    /\ \E e \in ZoomInEvents \cup {WheelScrolled("Lines", 0), WheelScrolled("Pixels", 0)} :
          Update(e)
    /\ UNCHANGED <<candles, bounds, history, frame, drawn>>

NextZoom == ZoomStart \/ ZoomRepeat \/ ZoomAtMax

SpecZoom ==
    InitZoom /\ [][NextZoom]_vars /\ WF_vars(ZoomStart) /\ WF_vars(ZoomRepeat)

-----------------------------------------------------------------------------
(* Claims about the input handler, checked under Spec. *)

Tenth == Rat(1, 10)

Ten == R(10)

InRange(s) == RLe(Tenth, s) /\ RLe(s, Ten)

\* C1: after any sequence of events from the default state, price_scale and
\* time_scale each lie within [0.1, 10.0], also after wheel deltas whose zoom
\* factor is zero or negative.
C1_ScalesClamped == InRange(price_scale) /\ InRange(time_scale)

\* A wheel event with zoom factor -1 was applied while the button was held.
C1_Witness ==
    /\ event = WheelScrolled("Lines", -20)
    /\ status = "Captured"
    /\ price_scale = Tenth
    /\ time_scale = Tenth

IsMiddlePress(e) == e.kind = "ButtonPressed" /\ e.button = "Middle"

IsMiddleRelease(e) == e.kind = "ButtonReleased" /\ e.button = "Middle"

IsWheel(e) == e.kind = "WheelScrolled"

\* C2: every event other than a middle-button press, a middle-button release
\* or a wheel scroll received while the button is held is reported Ignored and
\* leaves middle_pressed, price_scale and time_scale unchanged.
C2_OthersIgnored ==
    [][(/\ ~IsMiddlePress(event')
        /\ ~IsMiddleRelease(event')
        /\ ~(IsWheel(event') /\ middle_pressed))
       => (/\ status' = "Ignored"
           /\ UNCHANGED <<middle_pressed, price_scale, time_scale>>)]_vars

\* A wheel event arrived while the button was not held, after a press of
\* another button.
C2_Witness ==
    /\ history = <<ButtonPressed("Left"), WheelScrolled("Lines", 40)>>
    /\ status = "Ignored"
    /\ ~middle_pressed
    /\ price_scale = R(1)

\* The delta of a wheel event in lines, as the claim states it: y for a Lines
\* event, y/50 for a Pixels event; and the scale the claim expects.
C5_Delta(e) == IF e.unit = "Lines" THEN Rat(e.y, 1) ELSE Rat(e.y, 50)

C5_Expected(s, e) ==
    RMax(Tenth, RMin(Ten, RMul(s, RAdd(R(1), RMul(Tenth, C5_Delta(e))))))

\* C5: a wheel scroll received while the button is held is Captured, leaves
\* the button held and sets each scale to clamp(old * (1 + 0.1*d), 0.1, 10),
\* d being y for Lines and y/50 for Pixels; from scales 1.0 a +2.0-line delta
\* gives 1.2 for both.
C5_WheelZoom ==
    [][(IsWheel(event') /\ middle_pressed /\ history' # history)
       => (/\ status' = "Captured"
           /\ middle_pressed'
           /\ price_scale' = C5_Expected(price_scale, event')
           /\ time_scale' = C5_Expected(time_scale, event')
           /\ (price_scale = R(1) /\ time_scale = R(1) /\ C5_Delta(event') = R(2)
                 => price_scale' = Rat(12, 10) /\ time_scale' = Rat(12, 10)))]_vars

\* A Pixels delta of 100 (two lines) was applied to the default scales.
C5_Witness ==
    /\ history = <<ButtonPressed("Middle"), WheelScrolled("Pixels", 100)>>
    /\ status = "Captured"
    /\ price_scale = Rat(6, 5)
    /\ time_scale = Rat(6, 5)

\* The events delivered contain a middle press not followed by a middle release.
PendingPress(h) ==
    \E i \in 1..Len(h) :
        /\ IsMiddlePress(h[i])
        /\ \A j \in (i + 1)..Len(h) : ~IsMiddleRelease(h[j])

\* C7: a middle press sets middle_pressed, a middle release clears it, each is
\* Captured and leaves both scales unchanged; so middle_pressed is true exactly
\* when the events delivered contain a middle press not followed by a middle
\* release.
C7_ButtonTracking ==
    [][/\ IsMiddlePress(event') /\ history' # history
            => (/\ middle_pressed'
                /\ status' = "Captured"
                /\ UNCHANGED <<price_scale, time_scale>>)
       /\ IsMiddleRelease(event') /\ history' # history
            => (/\ ~middle_pressed'
                /\ status' = "Captured"
                /\ UNCHANGED <<price_scale, time_scale>>)
       /\ middle_pressed' = PendingPress(history')]_vars

\* A release with no prior press, then a press, then a release.
C7_Witness ==
    /\ history = <<ButtonReleased("Middle"), ButtonPressed("Middle"),
                   ButtonReleased("Middle")>>
    /\ ~middle_pressed
    /\ status = "Captured"

\* C10: in every state reachable from the default state, price_scale equals
\* time_scale.
C10_ScalesEqual == price_scale = time_scale

\* Both scales were zoomed away from the default and from the clamps.
C10_Witness ==
    /\ price_scale = Rat(3, 5)
    /\ time_scale = Rat(3, 5)
    /\ status = "Captured"

-----------------------------------------------------------------------------
(* Claim about the zoom-in gesture, checked under SpecZoom. *)

AtMax == price_scale = Ten /\ time_scale = Ten

-----------------------------------------------------------------------------
(* Claims about the geometry builder, checked under SpecDraw. *)

\* C3 as stated: for an empty candle sequence draw emits exactly one command,
\* the background fill.
C3_OneBackgroundCommand ==
    (drawn /\ candles = <<>>) => (Len(frame) = 1 /\ frame[1] = Background(bounds))

\* C3 as amended: for an empty candle sequence draw emits no command at all,
\* not even the background fill, for every viewport state.
C3_NoCommand == (drawn /\ candles = <<>>) => frame = <<>>

\* draw has run on an empty candle sequence with a zoomed viewport.
C3_Witness == drawn /\ candles = <<>> /\ price_scale = Ten

IsWick(c) == c.op = "stroke" /\ c.color = "BLACK"

IsBody(c) ==
    c.op = "fill_rectangle" /\ c.color \in {"rgb(0.0,0.7,0.0)", "rgb(0.7,0.0,0.0)"}

IsGridOrLabel(c) ==
    \/ c.op = "fill_text"
    \/ c.op = "stroke" /\ c.color \in {"rgb8(200,200,200)", "rgb8(220,220,220)"}

\* The centre of slot i (1-based) of n slots scaled by ts over the width w.
C4_SlotCentre(i, n, ts, w) ==
    RMul(Rat(2 * i - 1, 2), RDiv(R(w), RMax(RMul(R(n), ts), R(1))))

\* C4: for a non-empty candle sequence of length n, draw emits exactly n
\* wick+body pairs, the i-th pair that of candle i, each wick immediately
\* before its body, all after the background fill and before any grid line or
\* label, whatever the scales are.
C4_CandlePairs ==
    (drawn /\ candles # <<>>) =>
        LET n == Len(candles)
            m == Mapper(candles, State, bounds)
        IN  /\ Len(frame) >= 1 + 2 * n
            /\ frame[1] = Background(bounds)
            /\ \A i \in 1..n :
                /\ IsWick(frame[2 * i])
                /\ frame[2 * i].a[1] = C4_SlotCentre(i, n, time_scale, bounds.width)
                /\ frame[2 * i].a[2] = price_to_y(R(candles[i].high), m)
                /\ frame[2 * i].b[2] = price_to_y(R(candles[i].low), m)
                /\ IsBody(frame[2 * i + 1])
                /\ RAdd(frame[2 * i + 1].a[1], RDiv(frame[2 * i + 1].b[1], R(2)))
                      = C4_SlotCentre(i, n, time_scale, bounds.width)
                /\ {frame[2 * i + 1].a[2],
                    RAdd(frame[2 * i + 1].a[2], frame[2 * i + 1].b[2])}
                      = {price_to_y(R(candles[i].open), m),
                         price_to_y(R(candles[i].close), m)}
            /\ \A k \in (2 * n + 2)..Len(frame) : IsGridOrLabel(frame[k])
            /\ Cardinality({k \in 1..Len(frame) : IsWick(frame[k])}) = n
            /\ Cardinality({k \in 1..Len(frame) : IsBody(frame[k])}) = n

\* Three different candles were drawn at the largest time scale.
C4_Witness ==
    /\ drawn
    /\ Len(candles) = 3
    /\ candles[1].close > candles[1].open
    /\ candles[2].close < candles[2].open
    /\ candles[3].high = candles[3].low
    /\ time_scale = Ten

ProbePrices == {R(0), R(1), Rat(3, 2), R(2), Rat(5, 2), R(3), R(4), R(5)}

\* C8: for a non-empty candle sequence with max(high) >= min(low), a height
\* > 0 and price_scale in [0.1, 10], price_to_y is non-increasing in the price;
\* so the wick of every candle with low <= high has y(high) <= y(low), and the
\* body rectangle has its top <= its bottom (a height >= 0).
C8_PriceToYMonotone ==
    (/\ drawn
     /\ candles # <<>>
     /\ RLe(min_price(candles), max_price(candles))
     /\ bounds.height > 0
     /\ InRange(price_scale)) =>
        LET m == Mapper(candles, State, bounds)
        IN  /\ \A p1, p2 \in ProbePrices :
                RLe(p1, p2) => RLe(price_to_y(p2, m), price_to_y(p1, m))
            /\ \A i \in 1..Len(candles) :
                /\ candles[i].low <= candles[i].high
                      => RLe(frame[2 * i].a[2], frame[2 * i].b[2])
                /\ RLe(R(0), frame[2 * i + 1].b[2])

\* A falling and a rising candle were drawn with the price axis zoomed in.
C8_Witness ==
    /\ drawn
    /\ Len(candles) = 2
    /\ candles[1].close < candles[1].open
    /\ candles[2].close > candles[2].open
    /\ price_scale = Ten
    /\ RLt(frame[2].a[2], frame[2].b[2])

\* C9: the body of every candle drawn is green if and only if close > open and
\* red whenever close <= open (also when close = open), whatever the viewport
\* state and the other candles are.
C9_BodyColour ==
    (drawn /\ candles # <<>>) =>
        \A i \in 1..Len(candles) :
            /\ frame[2 * i + 1].color = "rgb(0.0,0.7,0.0)"
                  <=> candles[i].close > candles[i].open
            /\ candles[i].close <= candles[i].open
                  => frame[2 * i + 1].color = "rgb(0.7,0.0,0.0)"

\* A candle that closes where it opened was drawn red next to a green one.
C9_Witness ==
    /\ drawn
    /\ Len(candles) = 2
    /\ candles[1].close = candles[1].open
    /\ frame[3].color = "rgb(0.7,0.0,0.0)"
    /\ frame[5].color = "rgb(0.0,0.7,0.0)"

====
